---- MODULE Spec2Model ----
(***************************************************************************)
(* The subscription / payment lifecycle of backend/server.py:              *)
(*   POST /api/checkout               create_checkout_session              *)
(*   GET  /api/checkout/status/{id}   get_checkout_status   (pull path)    *)
(*   POST /api/webhook/stripe         handle_stripe_webhook (push path)    *)
(* over the collections db.payment_transactions and db.users and the       *)
(* remote Stripe checkout sessions.                                        *)
(*                                                                         *)
(* Every handler is a coroutine: it can be suspended at each await, and    *)
(* other requests run in between.  One action of the model is the code of  *)
(* a handler from one suspension point to the next.                        *)
(***************************************************************************)
EXTENDS Integers, Sequences, FiniteSets, TLC

\* ------------------------------------------------------------------ bounds
\* Number of requests served in one behaviour.
MaxReqs == 2

\* ------------------------------------------------------- program constants
\* timedelta(days=30): the flat entitlement period; the clock counts days.
GrantDays == 30

\* PREMIUM_PLANS: plan id -> price (in hundredths of a dollar: 9.99 is 999).
PREMIUM_PLANS ==
    [starter |-> 999, professional |-> 1999, enterprise |-> 4999]

\* ----------------------------------------------------------------- inputs
Users == {"u1", "u2"}

\* Plan ids a client may send: the catalog keys and one that is no key.
PlanInputs == DOMAIN PREMIUM_PLANS \cup {"gold"}

\* Sessions whose PaymentTransaction is in the collection when the process
\* starts, and the ids Stripe issues afterwards.
SeededSessions == {1, 2}
SessionIds == 1 .. (Cardinality(SeededSessions) + MaxReqs)

Slots == 1 .. MaxReqs

None == << >>

VARIABLES
    db_payment_transactions,  \* the collection: a set of PaymentTransaction documents
    db_users,                 \* user id -> the entitlement fields of the User document
    stripe_sessions,          \* session id -> the checkout session held by Stripe
    webhook_secret,           \* whether STRIPE_WEBHOOK_SECRET is set
    now,                      \* the next value datetime.utcnow() returns
    pc,                       \* slot -> where the request's coroutine is suspended
    req,                      \* slot -> the locals of the request's coroutine
    response,                 \* the HTTP exchange completed last
    grants                    \* session id -> number of entitlement writes made for it

vars == << db_payment_transactions, db_users, stripe_sessions, webhook_secret,
           now, pc, req, response, grants >>

\* ---------------------------------------------------------------- records
\* class PaymentTransaction, with its defaults.
PaymentTransaction(session_id, user_id, plan, amount) ==
    [ session_id     |-> session_id,
      user_id        |-> user_id,
      plan           |-> plan,
      amount         |-> amount,
      currency       |-> "usd",
      status         |-> "pending",
      payment_status |-> "unpaid",
      updated_at     |-> 0 ]

\* A user premium from registration.
User_Premium ==
    [ is_premium |-> TRUE, subscription_plan |-> None, subscription_expires |-> None ]

\* class User: the entitlement fields and their defaults.
User ==
    [ is_premium |-> FALSE, subscription_plan |-> None, subscription_expires |-> None ]

\* The grant with the display name of a plan for its key.
Entitlement_PlanName(plan, at) ==
    [ is_premium |-> TRUE, subscription_plan |-> << "Starter Plan" >>,
      subscription_expires |-> << at + GrantDays >> ]

\* The grant with the period left out.
Entitlement_NoPeriod(plan, at) ==
    [ is_premium |-> TRUE, subscription_plan |-> << plan >>,
      subscription_expires |-> << at >> ]

\* The $set of the entitlement grant: Optional values are None or << value >>.
Entitlement(plan, at) ==
    [ is_premium |-> TRUE, subscription_plan |-> << plan >>,
      subscription_expires |-> << at + GrantDays >> ]

\* A checkout session as Stripe holds it.
NoSession       == [ status |-> "none",     payment_status |-> "none"   ]
OpenSession     == [ status |-> "open",     payment_status |-> "unpaid" ]
CompleteSession == [ status |-> "complete", payment_status |-> "paid"   ]
ExpiredSession  == [ status |-> "expired",  payment_status |-> "unpaid" ]

\* The attributes of the object stripe.checkout.Session.create returns.
StripeSessionObject(id, held) ==
    [ id |-> id, url |-> << "checkout.stripe.com", id >>,
      status |-> held.status, payment_status |-> held.payment_status ]

\* The locals of a request.
NoLocals ==
    [ op |-> "", user |-> "", plan |-> "", session_id |-> 0, signature |-> "",
      transaction |-> None, session |-> None, status |-> "", payment_status |-> "" ]

NoResponse ==
    [ op |-> "", user |-> "", session_id |-> 0,
      code |-> 0, detail |-> "", status |-> "", payment_status |-> "",
      url |-> None, returned_session_id |-> 0 ]

\* ------------------------------------------------------------- collections
\* find_one(filter): a matching document, or None.
FindBySession(coll, session_id) ==
    LET m == { t \in coll : t.session_id = session_id }
    IN  IF m = {} THEN None ELSE << CHOOSE t \in m : TRUE >>

\* The filter without the user_id.
FindBySessionAndUser_AnyUser(coll, session_id, user_id) ==
    LET m == { t \in coll : t.session_id = session_id }
    IN  IF m = {} THEN None ELSE << CHOOSE t \in m : TRUE >>

FindBySessionAndUser(coll, session_id, user_id) ==
    LET m == { t \in coll : t.session_id = session_id /\ t.user_id = user_id }
    IN  IF m = {} THEN None ELSE << CHOOSE t \in m : TRUE >>

\* {"$set": fields} applied to one document.
SetFields(doc, fields) ==
    [ k \in DOMAIN doc |-> IF k \in DOMAIN fields THEN fields[k] ELSE doc[k] ]

\* The changed document stored next to the one it was read from.
UpdateOne_Copy(coll, session_id, fields) ==
    LET m == { t \in coll : t.session_id = session_id }
    IN  IF m = {} THEN coll
        ELSE coll \cup { SetFields(CHOOSE x \in m : TRUE, fields) }

\* update_one({"session_id": session_id}, {"$set": fields}): the first matching
\* document is changed in place; without a match nothing happens (no upsert).
UpdateOne(coll, session_id, fields) ==
    LET m == { t \in coll : t.session_id = session_id }
    IN  IF m = {} THEN coll
        ELSE LET t == CHOOSE x \in m : TRUE
             IN  (coll \ {t}) \cup { SetFields(t, fields) }

\* insert_one under the unique index on session_id (startup_event): a second
\* document with the same session_id is refused.
InsertOne(coll, doc) ==
    IF \E t \in coll : t.session_id = doc.session_id THEN coll ELSE coll \cup {doc}

\* ------------------------------------------------------------------- Init
\* The document store outlives the process and is written by whoever holds its
\* address, so its content at start is an input.  The users are registered with
\* the defaults of class User, and the collection holds, for each seeded
\* session, one document with the defaults of class PaymentTransaction: pending
\* and unpaid.  The first belongs to u1; the second to u1 as well, or to u2.
\* STRIPE_API_KEY is set (line 47); STRIPE_WEBHOOK_SECRET is set or not.
SeedOwners ==
    { f \in [ SeededSessions -> Users ] : f[1] = "u1" }

SeedPlan == [ s \in SeededSessions |-> IF s = 1 THEN "starter" ELSE "professional" ]

SeedLedgers ==
    { { PaymentTransaction(s, f[s], SeedPlan[s], PREMIUM_PLANS[SeedPlan[s]])
          : s \in SeededSessions }
      : f \in SeedOwners }

Init ==
    /\ db_payment_transactions \in SeedLedgers
    /\ db_users = [ u \in Users |-> User ]
    /\ stripe_sessions =
         [ s \in SessionIds |-> IF s \in SeededSessions THEN OpenSession ELSE NoSession ]
    /\ webhook_secret \in BOOLEAN
    /\ now = 1
    /\ pc = [ r \in Slots |-> "idle" ]
    /\ req = [ r \in Slots |-> NoLocals ]
    /\ response = NoResponse
    /\ grants = [ s \in SessionIds |-> 0 ]

\* ---------------------------------------------------------------- requests
\* Requests take the slots in order.
Arrives(r) ==
    /\ pc[r] = "idle"
    /\ \A q \in Slots : q < r => pc[q] # "idle"

\* The response of the handler whose locals are l, with the caller and the
\* session the request named.
Reply(l, code, detail) ==
    [ NoResponse EXCEPT !.op = l.op, !.user = l.user, !.session_id = l.session_id,
                        !.code = code, !.detail = detail ]

\* The handler of request r returns (or raises) with response resp.
Return(r, resp) ==
    /\ pc' = [ pc EXCEPT ![r] = "done" ]
    /\ req' = [ req EXCEPT ![r] = NoLocals ]
    /\ response' = resp

\* The handler of request r is suspended at label with locals l.
Suspend(r, label, l) ==
    /\ pc' = [ pc EXCEPT ![r] = label ]
    /\ req' = [ req EXCEPT ![r] = l ]
    /\ UNCHANGED response

\* datetime.utcnow() read after a write: a later instant, up to the last one
\* the clock of the model tells apart.
MaxClock == 1 + 2 * MaxReqs

Tick(t) == IF t < MaxClock THEN t + 1 ELSE t

\* ------------------------------------------------------------ Python names
\* A record models an object: reading an attribute it does not have raises
\* AttributeError.
HasAttr(obj, name) == name \in DOMAIN obj

\* The names bound at module level that the payment handlers use.
ModuleGlobals ==
    { "stripe", "db", "os", "json", "logging", "datetime", "timedelta",
      "HTTPException", "PREMIUM_PLANS", "STRIPE_API_KEY", "PaymentTransaction",
      "CheckoutRequest", "User" }

\* The names each handler binds (parameters and assignments).
CheckoutLocals ==
    { "checkout_request", "current_user", "plan_info", "amount", "success_url",
      "cancel_url", "session", "transaction", "e" }

StatusLocals ==
    { "session_id", "current_user", "transaction", "session", "payment_status",
      "status", "update_data", "e" }

\* Reading a name that is bound neither locally nor at module level raises
\* NameError.
Bound(name, locals) == name \in locals \cup ModuleGlobals

\* ------------------------------------------------ create_checkout_session
\* The sessions Stripe has created, and the id it gives the next one.
Issued == { s \in SessionIds : stripe_sessions[s] # NoSession }
NextSessionId == Cardinality(Issued) + 1

\* Lines 743-750: building the PaymentTransaction reads session.session_id and
\* checkout_session_request.metadata.
CheckoutRaises(session) ==
    \/ ~ HasAttr(session, "session_id")
    \/ ~ Bound("checkout_session_request", CheckoutLocals)

\* The insert made before Stripe is asked.
TransactionsAfterCheckout_InsertFirst(coll, created, session, user, plan) ==
    InsertOne(coll, PaymentTransaction(NextSessionId, user, plan, PREMIUM_PLANS[plan]))

\* The collection after the handler, given whether Stripe created the session:
\* a StripeError is re-raised as HTTPException before the insert is reached.
TransactionsAfterCheckout(coll, created, session, user, plan) ==
    IF ~ created \/ CheckoutRaises(session) THEN coll
    ELSE InsertOne(coll,
             PaymentTransaction(session.session_id, user, plan, PREMIUM_PLANS[plan]))

\* The response after Stripe created the session.
CheckoutResponse(l, session) ==
    IF CheckoutRaises(session) THEN Reply(l, 500, "Internal Server Error")
    ELSE [ Reply(l, 200, "") EXCEPT !.url = session.url,
                                    !.returned_session_id = session.session_id ]

\* Every plan id taken for a key of the catalog.
ValidPlan_Any(plan) == TRUE

\* Line 707: checkout_request.plan in PREMIUM_PLANS.
ValidPlan(plan) == plan \in DOMAIN PREMIUM_PLANS

\* POST /api/checkout.  The handler has no suspension point before its insert.
create_checkout_session(r, user, plan) ==
    /\ Arrives(r)
    /\ LET l == [ NoLocals EXCEPT !.op = "checkout", !.user = user, !.plan = plan ]
           id == NextSessionId
       IN  IF ~ ValidPlan(plan)
           THEN /\ Return(r, Reply(l, 400, "Invalid plan"))
                /\ UNCHANGED << db_payment_transactions, stripe_sessions >>
           ELSE \E created \in BOOLEAN :
                  IF ~ created
                  THEN /\ Return(r, Reply(l, 400, "Stripe error"))
                       /\ db_payment_transactions' =
                            TransactionsAfterCheckout(db_payment_transactions, FALSE,
                                                      NoSession, user, plan)
                       /\ UNCHANGED stripe_sessions
                  ELSE /\ stripe_sessions' = [ stripe_sessions EXCEPT ![id] = OpenSession ]
                       /\ LET session == StripeSessionObject(id, OpenSession)
                          IN  /\ db_payment_transactions' =
                                   TransactionsAfterCheckout(db_payment_transactions, TRUE,
                                                             session, user, plan)
                              /\ Return(r, CheckoutResponse([ l EXCEPT !.session_id = id ],
                                                            session))
    /\ UNCHANGED << db_users, webhook_secret, now, grants >>

\* ------------------------------------------------------------------ Stripe
\* The customer pays on the hosted page, or lets the session run out.
stripe_customer_pays(id) ==
    /\ stripe_sessions[id] = OpenSession
    /\ stripe_sessions' = [ stripe_sessions EXCEPT ![id] = CompleteSession ]
    /\ UNCHANGED << db_payment_transactions, db_users, webhook_secret, now, pc, req,
                    response, grants >>

stripe_session_expires(id) ==
    /\ stripe_sessions[id] = OpenSession
    /\ stripe_sessions' = [ stripe_sessions EXCEPT ![id] = ExpiredSession ]
    /\ UNCHANGED << db_payment_transactions, db_users, webhook_secret, now, pc, req,
                    response, grants >>

\* The session ids a client or a webhook sender names: those Stripe has issued
\* and one it has not.
NamedSessions == Issued \cup ({ NextSessionId } \cap SessionIds)

\* ---------------------------------------------------- get_checkout_status
\* Line 787 reads checkout_status, which no line binds.
StatusRaises == ~ Bound("checkout_status", StatusLocals)

\* The stored status compared with the status Stripe reports.
AlreadyProcessed_StripeStatus(transaction) == transaction[1].status = "complete"

\* Line 763: transaction["status"] == "completed".
AlreadyProcessed(transaction) == transaction[1].status = "completed"

\* Lines 759-764: find_one by session_id and user_id, the 404 and the cached
\* answer for a transaction already completed.
get_checkout_status_find(r, user, session_id) ==
    /\ Arrives(r)
    /\ LET transaction == FindBySessionAndUser(db_payment_transactions, session_id, user)
           l == [ NoLocals EXCEPT !.op = "status", !.user = user,
                                  !.session_id = session_id, !.transaction = transaction ]
       IN  IF transaction = None
           THEN Return(r, Reply(l, 404, "Transaction not found"))
           ELSE IF AlreadyProcessed(transaction)
           THEN Return(r, [ Reply(l, 200, "") EXCEPT !.status = "complete",
                                                     !.payment_status = "paid" ])
           ELSE Suspend(r, "status_retrieve", l)
    /\ UNCHANGED << db_payment_transactions, db_users, stripe_sessions, webhook_secret,
                    now, grants >>

\* The error swallowed: the stored state answered as if nothing had changed.
RetrieveFailed_Swallowed(l) ==
    [ Reply(l, 200, "") EXCEPT !.status = l.transaction[1].status,
                               !.payment_status = l.transaction[1].payment_status ]

\* Lines 771-772: the StripeError is raised again as HTTPException(400).
RetrieveFailed(l) == Reply(l, 400, "Stripe error")

\* Lines 766-772: stripe.checkout.Session.retrieve, which may raise StripeError.
get_checkout_status_retrieve(r) ==
    /\ pc[r] = "status_retrieve"
    /\ LET l == req[r]
           session == StripeSessionObject(l.session_id, stripe_sessions[l.session_id])
       IN  \/ Return(r, RetrieveFailed(l))
           \/ Suspend(r, "status_update",
                      [ l EXCEPT !.session = << session >>,
                                 !.payment_status =
                                     IF session.payment_status = "paid" THEN "paid"
                                     ELSE "unpaid",
                                 !.status = session.status ])
    /\ UNCHANGED << db_payment_transactions, db_users, stripe_sessions, webhook_secret,
                    now, grants >>

\* Lines 774-787: update_one writes Stripe's status over the stored one, and the
\* test that follows raises NameError, so that lines 788-807 (the grant, the
\* mark and the return) are never reached.
get_checkout_status_update(r) ==
    /\ pc[r] = "status_update"
    /\ LET l == req[r]
       IN  /\ db_payment_transactions' =
                UpdateOne(db_payment_transactions, l.session_id,
                          [ status |-> l.status, payment_status |-> l.payment_status,
                            updated_at |-> now ])
           /\ Return(r, IF StatusRaises THEN Reply(l, 500, "Internal Server Error")
                        ELSE [ Reply(l, 200, "") EXCEPT !.status = l.status,
                                   !.payment_status = l.payment_status ])
    /\ now' = Tick(now)
    /\ UNCHANGED << db_users, stripe_sessions, webhook_secret, grants >>

\* -------------------------------------------------- handle_stripe_webhook
EventTypes == { "checkout.session.completed", "checkout.session.expired" }

\* An event Stripe signed reports what happened to the session; a body with
\* any other signature says whatever its sender chose.
Genuine(type, session_id) ==
    stripe_sessions[session_id] =
        IF type = "checkout.session.completed" THEN CompleteSession ELSE ExpiredSession

\* Verification left out.
Verified_Never(secret, signature) == TRUE

\* Lines 819-826: construct_event raises on a bad signature when the secret is
\* set; without the secret the body is parsed unverified.
Verified(secret, signature) == ~ secret \/ signature = "valid"

\* The test without its second operand.
ShouldGrant_StatusNotTested(transaction) == transaction # None

\* The test without its first operand.
ShouldGrant_NoneNotTested(transaction) ==
    transaction = None \/ transaction[1].status # "completed"

\* Line 833: transaction and transaction["status"] != "completed".
ShouldGrant(transaction) ==
    transaction # None /\ transaction[1].status # "completed"

\* Lines 811-833 and 854-857: verification, the event type, find_one by
\* session_id and the test that decides whether to grant.
handle_stripe_webhook_receive(r, type, session_id, signature) ==
    /\ Arrives(r)
    /\ signature = "valid" => Genuine(type, session_id)
    /\ LET transaction == FindBySession(db_payment_transactions, session_id)
           l == [ NoLocals EXCEPT !.op = "webhook", !.plan = type,
                                  !.session_id = session_id, !.signature = signature ]
       IN  IF ~ Verified(webhook_secret, signature)
           THEN Return(r, Reply(l, 400, "Webhook processing failed"))
           ELSE IF type # "checkout.session.completed"
           THEN Return(r, Reply(l, 200, "success"))
           ELSE IF ShouldGrant(transaction)
           THEN Suspend(r, "webhook_grant", [ l EXCEPT !.transaction = transaction ])
           ELSE Return(r, Reply(l, 200, "success"))
    /\ UNCHANGED << db_payment_transactions, db_users, stripe_sessions, webhook_secret,
                    now, grants >>

\* Lines 834-842: db.users.update_one on the owner of the transaction read.
\* Subscripting None raises TypeError, which line 855 turns into the 400.
handle_stripe_webhook_grant(r) ==
    /\ pc[r] = "webhook_grant"
    /\ LET l == req[r]
       IN  IF l.transaction = None
           THEN /\ Return(r, Reply(l, 400, "Webhook processing failed"))
                /\ UNCHANGED << db_users, grants, now >>
           ELSE LET transaction == l.transaction[1]
                IN  /\ db_users' =
                         [ u \in Users |->
                             IF u = transaction.user_id
                             THEN SetFields(db_users[u], Entitlement(transaction.plan, now))
                             ELSE db_users[u] ]
                    /\ grants' = [ grants EXCEPT ![l.session_id] = @ + 1 ]
                    /\ now' = Tick(now)
                    /\ Suspend(r, "webhook_mark", l)
    /\ UNCHANGED << db_payment_transactions, stripe_sessions, webhook_secret >>

\* Lines 844-854: the transaction is marked completed and the event acknowledged.
handle_stripe_webhook_mark(r) ==
    /\ pc[r] = "webhook_mark"
    /\ LET l == req[r]
       IN  /\ db_payment_transactions' =
                UpdateOne(db_payment_transactions, l.session_id,
                          [ status |-> "completed", payment_status |-> "paid",
                            updated_at |-> now ])
           /\ Return(r, Reply(l, 200, "success"))
    /\ now' = Tick(now)
    /\ UNCHANGED << db_users, stripe_sessions, webhook_secret, grants >>

\* ------------------------------------------------------------------- Next
Next ==
    \/ \E r \in Slots, user \in Users, plan \in PlanInputs :
            create_checkout_session(r, user, plan)
    \/ \E r \in Slots, user \in Users, session_id \in NamedSessions :
            get_checkout_status_find(r, user, session_id)
    \/ \E r \in Slots : get_checkout_status_retrieve(r)
    \/ \E r \in Slots : get_checkout_status_update(r)
    \/ \E r \in Slots, type \in EventTypes, session_id \in NamedSessions,
           signature \in { "valid", "invalid" } :
            handle_stripe_webhook_receive(r, type, session_id, signature)
    \/ \E r \in Slots : handle_stripe_webhook_grant(r)
    \/ \E r \in Slots : handle_stripe_webhook_mark(r)
    \/ \E id \in SessionIds : stripe_customer_pays(id)
    \/ \E id \in SessionIds : stripe_session_expires(id)

Spec == Init /\ [][Next]_vars

\* ================================================================== claims
\* The stored transaction of a session, as find_one sees it after a step.
StoredAfter(session_id) == FindBySession(db_payment_transactions', session_id)

\* C1: for every session, over every interleaving of status requests and
\* webhook deliveries, the entitlement write to the owner is applied at most
\* once.  Stated for the deployment with the webhook secret set, where every
\* delivery that is processed is one Stripe signed.
C1_AtMostOneGrantPerTransaction ==
    webhook_secret => \A s \in SessionIds : grants[s] <= 1

\* C2: once the stored status of a transaction is "completed", no step of any
\* request changes it to another value.
C2_CompletedIsTerminal ==
    [][ \A t \in db_payment_transactions :
            t.status = "completed" =>
                \A x \in db_payment_transactions' :
                    x.session_id = t.session_id => x.status = "completed" ]_vars

\* C3: a webhook delivery that is accepted, reports checkout.session.completed
\* and finds the transaction not completed writes is_premium = true, the plan
\* of the transaction and the time of the grant + 30 days to the owner, and
\* when it acknowledges it has written status "completed" and payment_status
\* "paid" to the transaction, the owner being premium.
C3_WebhookGrantsAndCompletes ==
    [][ \A r \in Slots :
          /\ (handle_stripe_webhook_grant(r) /\ req[r].transaction # None) =>
                LET t == req[r].transaction[1]
                IN  /\ db_users'[t.user_id].is_premium = TRUE
                    /\ db_users'[t.user_id].subscription_plan = << t.plan >>
                    /\ db_users'[t.user_id].subscription_expires = << now + GrantDays >>
          /\ (handle_stripe_webhook_mark(r) /\ req[r].transaction # None) =>
                LET t == req[r].transaction[1]
                IN  /\ response'.code = 200 /\ response'.detail = "success"
                    /\ StoredAfter(t.session_id) # None
                    /\ StoredAfter(t.session_id)[1].status = "completed"
                    /\ StoredAfter(t.session_id)[1].payment_status = "paid"
                    /\ db_users'[t.user_id].is_premium = TRUE
                    /\ db_users'[t.user_id].subscription_expires # None ]_vars

\* C3 witness: a delivery for the pending transaction of session 1 has been
\* acknowledged, the transaction is completed and paid, and its owner holds
\* the plan of the transaction.
C3_Witness ==
    /\ response.op = "webhook" /\ response.code = 200 /\ response.session_id = 1
    /\ grants[1] = 1
    /\ \E t \in db_payment_transactions :
          /\ t.session_id = 1 /\ t.status = "completed" /\ t.payment_status = "paid"
          /\ db_users[t.user_id].is_premium
          /\ db_users[t.user_id].subscription_plan = << t.plan >>
          /\ db_users[t.user_id].subscription_expires = << t.updated_at - 1 + GrantDays >>

\* C4: a status request of the owner that read the transaction as not completed
\* and to which Stripe answered "paid" returns Stripe's status and payment
\* status, with the entitlement applied and the transaction completed.
C4_PullGrantsWhenPaid ==
    [][ \A r \in Slots :
          ( /\ req[r].op = "status" /\ req[r].payment_status = "paid"
            /\ pc[r] # "done" /\ pc'[r] = "done" ) =>
              /\ response'.code = 200
              /\ response'.status = req[r].status
              /\ response'.payment_status = "paid"
              /\ db_users'[req[r].user].is_premium = TRUE
              /\ db_users'[req[r].user].subscription_plan = << req[r].transaction[1].plan >>
              /\ StoredAfter(req[r].session_id)[1].status = "completed" ]_vars

\* C5: with the webhook secret set, a delivery whose signature does not verify
\* is rejected with an error, and the call changes no transaction and no user.
C5_BadSignatureRejected ==
    [][ \A r \in Slots, type \in EventTypes, session_id \in SessionIds :
          ( webhook_secret
            /\ handle_stripe_webhook_receive(r, type, session_id, "invalid") ) =>
              /\ pc'[r] = "done"
              /\ response'.code = 400
              /\ UNCHANGED << db_payment_transactions, db_users >> ]_vars

\* C5 witness: with the secret set, a delivery naming a transaction that is
\* not completed has been rejected.
C5_Witness ==
    /\ webhook_secret
    /\ response.op = "webhook" /\ response.code = 400
    /\ \E t \in db_payment_transactions :
          t.session_id = response.session_id /\ t.status # "completed"

\* C6: a status request for a session whose transaction belongs to another
\* user fails with the 404 of a session that has no transaction, at once:
\* Stripe is not asked and no transaction and no user is changed.
C6_ForeignSessionNotFound ==
    [][ \A r \in Slots, user \in Users, session_id \in SessionIds :
          ( /\ get_checkout_status_find(r, user, session_id)
            /\ \A t \in db_payment_transactions :
                  t.session_id = session_id => t.user_id # user ) =>
              /\ pc'[r] = "done"
              /\ response'.code = 404
              /\ response'.detail = "Transaction not found"
              /\ response'.status = "" /\ response'.payment_status = ""
              /\ UNCHANGED << db_payment_transactions, db_users, stripe_sessions >> ]_vars

\* C6 witness: the last exchange is a 404 to a user asking for the session of
\* a transaction that exists and belongs to another user.
C6_Witness ==
    /\ response.op = "status" /\ response.code = 404
    /\ \E t \in db_payment_transactions :
          t.session_id = response.session_id /\ t.user_id # response.user

\* C7: a checkout for a plan of the catalog for which Stripe created the
\* session stores exactly one new transaction (the caller, the plan, the
\* catalog price, "usd", pending, unpaid, Stripe's session id) and returns
\* Stripe's url with that session id.
C7_CheckoutPersistsAndReturns ==
    [][ \A r \in Slots, user \in Users, plan \in DOMAIN PREMIUM_PLANS :
          ( /\ create_checkout_session(r, user, plan)
            /\ stripe_sessions' # stripe_sessions ) =>
              LET id == NextSessionId
              IN  /\ response'.code = 200
                  /\ response'.url = << "checkout.stripe.com", id >>
                  /\ response'.returned_session_id = id
                  /\ db_payment_transactions' = db_payment_transactions \cup
                        { [ session_id |-> id, user_id |-> user, plan |-> plan,
                            amount |-> PREMIUM_PLANS[plan], currency |-> "usd",
                            status |-> "pending", payment_status |-> "unpaid",
                            updated_at |-> 0 ] }
                  /\ Cardinality(db_payment_transactions') =
                        Cardinality(db_payment_transactions) + 1 ]_vars

\* C8: a checkout that Stripe rejects fails with the Stripe error and leaves
\* the set of transactions as it was, and every pending transaction has a
\* session that Stripe created.
C8_NoInsertWithoutSession ==
    /\ [][ \A r \in Slots, user \in Users, plan \in DOMAIN PREMIUM_PLANS :
            ( /\ create_checkout_session(r, user, plan)
              /\ stripe_sessions' = stripe_sessions ) =>
                /\ response'.code = 400
                /\ response'.detail = "Stripe error"
                /\ db_payment_transactions' = db_payment_transactions ]_vars
    /\ [] ( \A t \in db_payment_transactions :
              t.status = "pending" =>
                  /\ t.session_id \in SessionIds
                  /\ stripe_sessions[t.session_id] # NoSession )

\* C8 witness: Stripe has rejected a checkout of u1, and the transactions are
\* the seeded ones.
C8_Witness ==
    /\ response.op = "checkout" /\ response.code = 400
    /\ response.detail = "Stripe error" /\ response.user = "u1"
    /\ { t.session_id : t \in db_payment_transactions } = SeededSessions

\* A session Stripe created for a checkout whose transaction was not stored.
Orphan(session_id) ==
    /\ stripe_sessions[session_id] # NoSession
    /\ ~ \E t \in db_payment_transactions : t.session_id = session_id

OrphanAfter(session_id) ==
    /\ stripe_sessions'[session_id] # NoSession
    /\ ~ \E t \in db_payment_transactions' : t.session_id = session_id

C11_CompletedAnsweredFromStore ==
    [][ \A r \in Slots :
          ( pc[r] = "idle" /\ pc'[r] # "idle" ) =>
            \A user \in Users, session_id \in SessionIds :
              ( /\ \E t \in db_payment_transactions :
                      /\ t.session_id = session_id /\ t.user_id = user
                      /\ t.status = "completed"
                /\ get_checkout_status_find(r, user, session_id) ) =>
                  /\ pc'[r] = "done"
                  /\ response'.code = 200
                  /\ response'.status = "complete"
                  /\ response'.payment_status = "paid"
                  /\ UNCHANGED << db_payment_transactions, db_users, stripe_sessions,
                                  now, grants >> ]_vars

\* C11 witness: the owner of a completed transaction has been answered
\* {complete, paid}.
C11_Witness ==
    /\ response.op = "status" /\ response.code = 200
    /\ response.status = "complete" /\ response.payment_status = "paid"
    /\ \E t \in db_payment_transactions :
          /\ t.session_id = response.session_id /\ t.user_id = response.user
          /\ t.status = "completed"

\* The event's session has a stored transaction that is not completed.
Grantable(session_id) ==
    \E t \in db_payment_transactions :
        t.session_id = session_id /\ t.status # "completed"

\* C12: an accepted delivery that is of another type, names a session without
\* a transaction or names a transaction already completed is acknowledged at
\* once with success and changes no transaction and no user; a delivery is
\* on its way to a write only if it was a checkout.session.completed event
\* that read a stored transaction as not completed.
C12_WebhookFrame ==
    /\ [][ \A r \in Slots :
            ( pc[r] = "idle" /\ pc'[r] # "idle" ) =>
              \A type \in EventTypes, session_id \in SessionIds,
                 signature \in { "valid", "invalid" } :
                ( /\ Verified(webhook_secret, signature)
                  /\ ~ (type = "checkout.session.completed" /\ Grantable(session_id))
                  /\ handle_stripe_webhook_receive(r, type, session_id, signature) ) =>
                    /\ pc'[r] = "done"
                    /\ response'.code = 200 /\ response'.detail = "success"
                    /\ UNCHANGED << db_payment_transactions, db_users >> ]_vars
    /\ [] ( \A r \in Slots :
              pc[r] \in { "webhook_grant", "webhook_mark" } =>
                  /\ req[r].plan = "checkout.session.completed"
                  /\ req[r].transaction # None
                  /\ req[r].transaction[1].session_id = req[r].session_id
                  /\ req[r].transaction[1].status # "completed" )

\* C12 witness: without the secret, a delivery naming a session Stripe never
\* issued has been acknowledged.
C12_Witness ==
    /\ response.op = "webhook" /\ response.code = 200 /\ response.detail = "success"
    /\ response.session_id \in SessionIds
    /\ stripe_sessions[response.session_id] = NoSession

\* C13: a status request whose Stripe call fails answers with the Stripe error
\* in that step, without a second call, and leaves the transaction, the user
\* and the clock as they were.
C13_StripeFailureReported ==
    [][ \A r \in Slots :
          ( pc'[r] = "done" /\ get_checkout_status_retrieve(r) ) =>
              /\ response'.code = 400
              /\ response'.detail = "Stripe error"
              /\ UNCHANGED << db_payment_transactions, db_users, stripe_sessions,
                              now, grants >> ]_vars

\* C13 witness: the owner of the pending transaction of session 1 has been
\* answered with the Stripe error, the transaction being as it was seeded.
C13_Witness ==
    /\ response.op = "status" /\ response.code = 400
    /\ response.detail = "Stripe error" /\ response.session_id = 1
    /\ \E t \in db_payment_transactions :
          /\ t.session_id = 1 /\ t.status = "pending"
          /\ t.payment_status = "unpaid" /\ t.updated_at = 0

\* C14: a checkout for a plan id that is no key of the catalog answers 400
\* "Invalid plan"; Stripe creates no session and no transaction is stored.
C14_InvalidPlanRejected ==
    [][ \A r \in Slots, user \in Users, plan \in PlanInputs \ DOMAIN PREMIUM_PLANS :
          create_checkout_session(r, user, plan) =>
              /\ response'.code = 400
              /\ response'.detail = "Invalid plan"
              /\ UNCHANGED << db_payment_transactions, stripe_sessions >> ]_vars

\* C14 witness: a checkout has been answered "Invalid plan".
C14_Witness ==
    /\ response.op = "checkout" /\ response.code = 400
    /\ response.detail = "Invalid plan"

\* C15: the entitlement fields of a user change only in the grant step of a
\* status request or a delivery that read a transaction of that user as not
\* completed; hence every premium user owns a transaction for which a grant
\* has been made, and the write of a status request to which Stripe answered
\* "unpaid" leaves every user as it was.
C15_EntitlementWriters ==
    /\ [][ db_users' # db_users =>
            \E r \in Slots :
                /\ req[r].op \in { "status", "webhook" }
                /\ pc[r] # pc'[r]
                /\ req[r].transaction # None
                /\ req[r].transaction[1].status # "completed"
                /\ \A u \in Users :
                      db_users'[u] # db_users[u] => u = req[r].transaction[1].user_id ]_vars
    /\ [] ( \A u \in Users :
              db_users[u].is_premium =>
                  \E t \in db_payment_transactions :
                      t.user_id = u /\ grants[t.session_id] >= 1 )
    /\ [][ \A r \in Slots :
            ( req[r].payment_status = "unpaid" /\ get_checkout_status_update(r) ) =>
                UNCHANGED << db_users, grants >> ]_vars

\* C15 witness: a user is premium by a grant made for a transaction that is
\* not yet marked completed.
C15_Witness ==
    \E t \in db_payment_transactions :
        /\ db_users[t.user_id].is_premium
        /\ grants[t.session_id] = 1
        /\ t.status # "completed"

\* C17: every change of a user's entitlement is the grant of a delivery for a
\* stored transaction of that user and sets that transaction's plan; hence the
\* plan of every user is None or a key of the catalog, and no step of a
\* checkout or of a status request changes any user.
C17_GrantGoesToOwner ==
    /\ [][ \A u \in Users :
            db_users'[u] # db_users[u] =>
                \E r \in Slots, t \in db_payment_transactions :
                    /\ pc[r] # pc'[r]
                    /\ req[r].op \in { "status", "webhook" }
                    /\ t.session_id = req[r].session_id
                    /\ t.user_id = u
                    /\ req[r].op = "status" => req[r].user = u
                    /\ db_users'[u].is_premium = TRUE
                    /\ db_users'[u].subscription_plan = << t.plan >> ]_vars
    /\ [] ( \A u \in Users :
              \/ db_users[u].subscription_plan = None
              \/ db_users[u].subscription_plan[1] \in DOMAIN PREMIUM_PLANS )
    /\ [][ db_users' # db_users =>
            \A r \in Slots :
                /\ \A user \in Users, plan \in PlanInputs :
                      ~ create_checkout_session(r, user, plan)
                /\ \A user \in Users, session_id \in SessionIds :
                      ~ get_checkout_status_find(r, user, session_id)
                /\ ~ get_checkout_status_retrieve(r)
                /\ ~ get_checkout_status_update(r) ]_vars

\* C17 witness: session 2 belongs to u2, u2 holds its plan by a grant, and u1
\* is as registered.
C17_Witness ==
    /\ \E t \in db_payment_transactions :
          /\ t.session_id = 2 /\ t.user_id = "u2"
          /\ db_users["u2"].subscription_plan = << t.plan >>
    /\ grants[2] = 1
    /\ db_users["u1"] = User

\* ------------------------------------------------ reconciliation by polling
\* The connection of a request that was answered serves the next request.
next_request(r) ==
    /\ pc[r] = "done"
    /\ pc' = [ pc EXCEPT ![r] = "idle" ]
    /\ UNCHANGED << db_payment_transactions, db_users, stripe_sessions, webhook_secret,
                    now, req, response, grants >>

\* The connection on which the statuses are asked for, one request after the
\* other.
Poller == 1

\* The owner of the transaction of session_id asks for its status.
OwnerPolls(session_id) ==
    \E t \in db_payment_transactions :
        /\ t.session_id = session_id
        /\ get_checkout_status_find(Poller, t.user_id, session_id)

\* Stripe answers the retrieve of request r.
RetrieveSucceeds(r) ==
    get_checkout_status_retrieve(r) /\ pc'[r] = "status_update"

\* The steps of the program while Stripe delivers no event: users ask for the
\* status of sessions, customers pay, sessions expire.
PollNext ==
    \/ \E user \in Users, session_id \in NamedSessions :
            get_checkout_status_find(Poller, user, session_id)
    \/ get_checkout_status_retrieve(Poller)
    \/ get_checkout_status_update(Poller)
    \/ next_request(Poller)
    \/ \E id \in SessionIds : stripe_customer_pays(id)
    \/ \E id \in SessionIds : stripe_session_expires(id)

\* Every owner keeps asking, Stripe answers again and again, and a handler that
\* can take its next step takes it.
PollFairness ==
    /\ \A session_id \in SeededSessions : SF_vars(OwnerPolls(session_id))
    /\ SF_vars(RetrieveSucceeds(Poller))
    /\ WF_vars(get_checkout_status_update(Poller))
    /\ WF_vars(next_request(Poller))

PollSpec == Init /\ [][PollNext]_vars /\ PollFairness

\* C16: a session whose stored transaction is pending and which Stripe
\* reports as paid eventually has its transaction completed and its owner
\* premium, and a completed transaction stays completed.
C16_ReconciliationCompletes ==
    \A s \in SeededSessions :
        /\ [] ( ( /\ \E x \in db_payment_transactions :
                        x.session_id = s /\ x.status = "pending"
                  /\ stripe_sessions[s] = CompleteSession ) =>
                    <> ( \E x \in db_payment_transactions :
                            /\ x.session_id = s
                            /\ x.status = "completed"
                            /\ db_users[x.user_id].is_premium ) )
        /\ [] ( ( \E x \in db_payment_transactions :
                      x.session_id = s /\ x.status = "completed" ) =>
                    [] ( \E x \in db_payment_transactions :
                            x.session_id = s /\ x.status = "completed" ) )

====
